---- MODULE Spec2Model ----
(***************************************************************************)
(* Channel pruning through sparse batch-normalisation scales               *)
(* (src/main.py): the ISTA penalty computation, the gamma rescaling trick, *)
(* the two-optimizer training loop and the main pipeline.                  *)
(*                                                                         *)
(* Python's float arithmetic is modelled as it is computed: every number   *)
(* is an IEEE 754 double and every operation rounds its exact result to    *)
(* 53 bits, ties to even; `/` is Python 3 true division.  The elements of  *)
(* the parameter tensors are taken to be doubles as well.                  *)
(***************************************************************************)
EXTENDS Integers, Sequences, FiniteSets

VARIABLES
    model,            \* the module tree handed to the functions of main.py
    weight,           \* weight[id]: the .weight.data of the layer with that id
    bias,             \* bias[id]: the .bias.data of the layer with that id
    rho,              \* regularisation strength given to compute_penalties
    factor,           \* the positive factor k by which rho is scaled
    image_dim,        \* reference resolution given to compute_penalties
    ista_penalties,   \* the list compute_penalties(model, rho) returned
    scaled_penalties, \* the list compute_penalties(model, factor*rho) returned
    follow_up_costs,  \* follow_up_cost at the end of each iteration of the call
    computed,         \* which of the two calls have returned
    alpha,            \* the alpha given to scale_gammas
    calls,            \* the scale_down arguments of the scale_gammas calls so far
    weight0,          \* the weights at construction
    bias0,            \* the biases at construction
    phase,            \* position of the caller (the main block or a test)
    fn,               \* the epoch loop that is running: train_model, finetune, none
    num_epochs,       \* the epoch count given to the running loop
    epoch,            \* its loop variable
    at,               \* what the loop body does next: train or test
    passes,           \* the passes the running loop has made: <<epoch, kind>>
    optimizer,        \* the optim.SGD of the running loop
    bn_optimizer,     \* the bnopt.BatchNormSGD of the running loop
    momentum_buffer,  \* the momentum buffers of the two optimizers
    stepped,          \* the weights between momentum update and proximal step
    n_steps,          \* optimizer steps taken since the start
    penalty_calls,    \* calls of compute_penalties since the start
    follow            \* ids of the layers switched to follow mode

netVars == <<model, weight, bias>>

loopVars == <<fn, num_epochs, epoch, at, passes, optimizer, bn_optimizer,
              momentum_buffer, stepped, n_steps>>

mainVars == <<phase, penalty_calls, follow>>

penVars == <<rho, factor, image_dim, ista_penalties, scaled_penalties,
             follow_up_costs, computed>>

scaleVars == <<alpha, calls, weight0, bias0>>

vars == <<netVars, penVars, scaleVars, loopVars, mainVars>>

-----------------------------------------------------------------------------
(* Bounds of the model. *)

\* the longest flattened layer sequence given to compute_penalties and
\* scale_gammas
MaxLayers == 3
\* the longest flattened layer sequence given to train_model and finetune
MaxTrainLayers == 3
\* the longest flattened layer sequence of the network of the main block
MaxMainLayers == 4
\* the most calls of scale_gammas in a run
MaxCalls == 2
\* the largest epoch count given to train_model and finetune
MaxEpochs == 3
\* the epoch counts of the main block (200, 50 and 10 on lines 163-165),
\* scaled down
initial_training_epochs == 2
finetuning_epochs == 2
compress_epochs == 2

-----------------------------------------------------------------------------
(* Natural numbers of any size: sequences of limbs in base 2^14, least     *)
(* significant first, without leading zero limbs (<<>> is 0).              *)

\* bits of a limb: the product of two limbs stays below 2^31
LimbBits == 14

Base == 2 ^ LimbBits

Abs(x) == IF x < 0 THEN -x ELSE x

RECURSIVE BFromInt(_)
BFromInt(n) == IF n = 0 THEN <<>> ELSE <<n % Base>> \o BFromInt(n \div Base)

RECURSIVE BNorm(_)
BNorm(x) ==
    IF x = <<>> \/ x[Len(x)] # 0 THEN x ELSE BNorm(SubSeq(x, 1, Len(x) - 1))

\* x + y + c, for a carry c
RECURSIVE BAddC(_, _, _)
BAddC(x, y, c) ==
    IF x = <<>> /\ y = <<>> THEN (IF c = 0 THEN <<>> ELSE <<c>>)
    ELSE LET s == (IF x = <<>> THEN 0 ELSE x[1]) + (IF y = <<>> THEN 0 ELSE y[1]) + c
         IN  <<s % Base>> \o BAddC(IF x = <<>> THEN x ELSE Tail(x),
                                   IF y = <<>> THEN y ELSE Tail(y), s \div Base)

BAdd(x, y) == BAddC(x, y, 0)

\* x - y - c for x >= y + c, with leading zero limbs left in
RECURSIVE BSubC(_, _, _)
BSubC(x, y, c) ==
    IF x = <<>> THEN <<>>
    ELSE LET d == x[1] - (IF y = <<>> THEN 0 ELSE y[1]) - c
         IN  <<d % Base>> \o BSubC(Tail(x), IF y = <<>> THEN y ELSE Tail(y),
                                   IF d < 0 THEN 1 ELSE 0)

BSub(x, y) == BNorm(BSubC(x, y, 0))

\* -1, 0 or 1 as x <, = or > y, comparing from limb i down
RECURSIVE BCmpFrom(_, _, _)
BCmpFrom(x, y, i) ==
    IF i = 0 THEN 0
    ELSE IF x[i] < y[i] THEN -1
    ELSE IF x[i] > y[i] THEN 1
    ELSE BCmpFrom(x, y, i - 1)

BCmp(x, y) ==
    IF Len(x) < Len(y) THEN -1
    ELSE IF Len(x) > Len(y) THEN 1
    ELSE BCmpFrom(x, y, Len(x))

\* x * d + c for one limb d and a carry c below Base
RECURSIVE BMulLimb(_, _, _)
BMulLimb(x, d, c) ==
    IF x = <<>> THEN (IF c = 0 THEN <<>> ELSE <<c>>)
    ELSE LET p == x[1] * d + c
         IN  <<p % Base>> \o BMulLimb(Tail(x), d, p \div Base)

\* x * Base^n
BShiftLimbs(x, n) == IF x = <<>> THEN x ELSE [i \in 1..n |-> 0] \o x

\* x * y by rows, for operands of any length
RECURSIVE BMulRows(_, _)
BMulRows(x, y) ==
    IF x = <<>> \/ y = <<>> THEN <<>>
    ELSE BAdd(BNorm(BMulLimb(x, y[1], 0)), BShiftLimbs(BMulRows(x, Tail(y)), 1))

\* the sum of x[i] * y[k + 1 - i] for i from i to hi
RECURSIVE BColumn(_, _, _, _, _)
BColumn(x, y, k, i, hi) ==
    IF i > hi THEN 0 ELSE x[i] * y[k + 1 - i] + BColumn(x, y, k, i + 1, hi)

\* the limbs of the number whose k-th column sum is BColumn, from column k on
RECURSIVE BColumns(_, _, _, _)
BColumns(x, y, k, carry) ==
    IF k >= Len(x) + Len(y) THEN (IF carry = 0 THEN <<>> ELSE <<carry>>)
    ELSE LET lo == IF k > Len(y) THEN k + 1 - Len(y) ELSE 1
             hi == IF k < Len(x) THEN k ELSE Len(x)
             c  == BColumn(x, y, k, lo, hi) + carry
         IN  <<c % Base>> \o BColumns(x, y, k + 1, c \div Base)

\* x * y: by columns while a column sum stays below 2^31
BMul(x, y) ==
    IF x = <<>> \/ y = <<>> THEN <<>>
    ELSE IF Len(x) <= 7 \/ Len(y) <= 7 THEN BColumns(x, y, 1, 0)
    ELSE BMulRows(x, y)

\* the quotient of x by one limb d, from limb i down, with r carried in
RECURSIVE BDivLimbFrom(_, _, _, _)
BDivLimbFrom(x, d, i, r) ==
    IF i = 0 THEN <<>>
    ELSE LET cur == r * Base + x[i]
         IN  Append(BDivLimbFrom(x, d, i - 1, cur % d), cur \div d)

BDivLimb(x, d) == BNorm(BDivLimbFrom(x, d, Len(x), 0))

\* the remainder of x by one limb d
RECURSIVE BModLimbFrom(_, _, _, _)
BModLimbFrom(x, d, i, r) ==
    IF i = 0 THEN r ELSE BModLimbFrom(x, d, i - 1, (r * Base + x[i]) % d)

BModLimb(x, d) == BModLimbFrom(x, d, Len(x), 0)

\* x * 2^k
BShl(x, k) ==
    BShiftLimbs(BMulLimb(x, 2 ^ (k % LimbBits), 0), k \div LimbBits)

\* x \div 2^k
BShr(x, k) ==
    LET q == k \div LimbBits
    IN  IF q >= Len(x) THEN <<>>
        ELSE BDivLimb(SubSeq(x, q + 1, Len(x)), 2 ^ (k % LimbBits))

\* whether x % 2^k # 0
BLowBits(x, k) ==
    LET q == k \div LimbBits
    IN  \/ \E i \in 1..q : i <= Len(x) /\ x[i] # 0
        \/ q < Len(x) /\ x[q + 1] % (2 ^ (k % LimbBits)) # 0

RECURSIVE IntBitLen(_)
IntBitLen(n) == IF n = 0 THEN 0 ELSE 1 + IntBitLen(n \div 2)

\* the number of bits of x
BitLen(x) ==
    IF x = <<>> THEN 0 ELSE LimbBits * (Len(x) - 1) + IntBitLen(x[Len(x)])

\* bit t of x (bit 0 is the least significant)
BBit(x, t) ==
    LET q == t \div LimbBits
    IN  IF q >= Len(x) THEN 0 ELSE (x[q + 1] \div (2 ^ (t % LimbBits))) % 2

BOdd(x) == x # <<>> /\ x[1] % 2 = 1

\* the largest digit with y * digit <= r, at most d
RECURSIVE BDigit(_, _, _)
BDigit(r, y, d) ==
    IF d = 0 \/ BCmp(BMulLimb(y, d, 0), r) <= 0 THEN d ELSE BDigit(r, y, d - 1)

\* the digit of the quotient of r by y, for r < y * Base and the top limb of
\* y at least Base / 2: the quotient of the top limbs is the digit or
\* exceeds it by 1 or 2
BQuotientDigit(r, y) ==
    LET n   == Len(y)
        top == IF Len(r) > n THEN r[n + 1] * Base + r[n]
               ELSE IF Len(r) = n THEN r[n] ELSE 0
        est == top \div y[n]
    IN  BDigit(r, y, IF est < Base THEN est ELSE Base - 1)

\* long division of x by y, limb by limb: the quotient of the limbs i and
\* below, r the remainder left by the limbs above
RECURSIVE BDivFrom(_, _, _, _)
BDivStep(x, y, i, r, d) ==
    Append(BDivFrom(x, y, i - 1, BSub(r, BMulLimb(y, d, 0))), d)

BDivNext(x, y, i, r) == BDivStep(x, y, i, r, BQuotientDigit(r, y))

BDivFrom(x, y, i, r) ==
    IF i = 0 THEN <<>> ELSE BDivNext(x, y, i, BNorm(<<x[i]>> \o r))

\* the shift that brings the top limb of y # 0 to Base / 2 or more
BNormShift(y) == LimbBits - IntBitLen(y[Len(y)])

BDivShifted(x, y) == BNorm(BDivFrom(x, y, Len(x), <<>>))

\* x \div y, for y # 0
BDiv(x, y) ==
    IF Len(y) = 1 THEN BDivLimb(x, y[1])
    ELSE BDivShifted(BShl(x, BNormShift(y)), BShl(y, BNormShift(y)))

\* the number of zero limbs at the low end of x # 0
RECURSIVE ZeroLimbs(_)
ZeroLimbs(x) == IF x[1] # 0 THEN 0 ELSE 1 + ZeroLimbs(Tail(x))

\* the number of zero bits at the low end of n # 0
RECURSIVE ZeroBits(_)
ZeroBits(n) == IF n % 2 = 1 THEN 0 ELSE 1 + ZeroBits(n \div 2)

-----------------------------------------------------------------------------
(* Python's float: the IEEE 754 double, a number s * m * 2^e held as       *)
(* <<s, m, e>> with sign s in {-1, 0, 1}, m odd (a natural number as       *)
(* above) of at most mant_dig bits, and <<0, <<>>, 0>> for zero (-0.0 is   *)
(* not told from 0.0, as by Python's ==).  Every operation gives the       *)
(* exact result rounded to the nearest float, ties to even; the exponent   *)
(* range, infinities and NaN are left out.  The operations named X...      *)
(* give the exact result, which has any number of bits.                    *)

\* sys.float_info.mant_dig
mant_dig == 53

Zero == <<0, <<>>, 0>>

\* s * m * 2^e with m made odd
Dyadic(s, m, e) ==
    IF m = <<>> \/ s = 0 THEN Zero
    ELSE LET zl == ZeroLimbs(m)
             m1 == SubSeq(m, zl + 1, Len(m))
             zb == ZeroBits(m1[1])
         IN  <<s, IF zb = 0 THEN m1 ELSE BShr(m1, zb), e + LimbBits * zl + zb>>

\* s * m * 2^e rounded to mant_dig bits, s # 0 and m # 0; a set sticky
\* says that the exact value is a little above m * 2^e
RoundTo(s, m, e, sticky) ==
    LET k == BitLen(m) - mant_dig
    IN  IF k <= 0 THEN Dyadic(s, m, e)
        ELSE LET q    == BShr(m, k)
                 half == BBit(m, k - 1) = 1
                 rest == sticky \/ BLowBits(m, k - 1)
                 up   == half /\ (rest \/ BOdd(q))
             IN  Dyadic(s, IF up THEN BAddC(q, <<>>, 1) ELSE q, e + k)

Round(x) == IF x[1] = 0 THEN Zero ELSE RoundTo(x[1], x[2], x[3], FALSE)

\* float(n) of an int n
FromInt(n) ==
    Round(Dyadic(IF n < 0 THEN -1 ELSE IF n > 0 THEN 1 ELSE 0, BFromInt(Abs(n)), 0))

One == <<1, <<1>>, 0>>

\* x made canonical
Canon(x) == Dyadic(x[1], x[2], x[3])

XNeg(a) == <<-a[1], a[2], a[3]>>

XAbs(a) == <<Abs(a[1]), a[2], a[3]>>

\* a * b, exact and with m not made odd
Product(a, b) == <<a[1] * b[1], BMul(a[2], b[2]), a[3] + b[3]>>

\* a + b, exact and with m not made odd
Sum(a, b) ==
    IF a[1] = 0 THEN b
    ELSE IF b[1] = 0 THEN a
    ELSE LET e  == IF a[3] < b[3] THEN a[3] ELSE b[3]
             ma == IF a[3] > e THEN BShl(a[2], a[3] - e) ELSE a[2]
             mb == IF b[3] > e THEN BShl(b[2], b[3] - e) ELSE b[2]
             c  == BCmp(ma, mb)
         IN  IF a[1] = b[1] THEN <<a[1], BAdd(ma, mb), e>>
             ELSE IF c = 0 THEN Zero
             ELSE IF c > 0 THEN <<a[1], BSub(ma, mb), e>>
             ELSE <<b[1], BSub(mb, ma), e>>

XMul(a, b) == Canon(Product(a, b))

XAdd(a, b) == Canon(Sum(a, b))

XSub(a, b) == XAdd(a, XNeg(b))

\* a <= b
XLeq(a, b) == Sum(a, XNeg(b))[1] <= 0

FNeg(a) == XNeg(a)

FAbs(a) == XAbs(a)

FLeq(a, b) == XLeq(a, b)

FAdd(a, b) == Round(Sum(a, b))

FSub(a, b) == Round(Sum(a, XNeg(b)))

FMul(a, b) == Round(Product(a, b))

\* what a division by zero gives in place of a value
ZeroDivisionError == <<"ZeroDivisionError">>

\* the quotient q of n by d, times 2^e, rounded
FDivRound(s, n, d, q, e) == RoundTo(s, q, e, BCmp(BMul(q, d), n) # 0)

\* a / b: the quotient to mant_dig + 2 bits or more, with the sticky bit set
\* when the division leaves a remainder, rounded
FDiv(a, b) ==
    IF b[1] = 0 THEN ZeroDivisionError
    ELSE IF a[1] = 0 THEN Zero
    ELSE LET k  == mant_dig + 2 + BitLen(b[2]) - BitLen(a[2])
             n  == IF k > 0 THEN BShl(a[2], k) ELSE a[2]
         IN  FDivRound(a[1] * b[1], n, b[2], BDiv(n, b[2]),
                       a[3] - b[3] - (IF k > 0 THEN k ELSE 0))

\* the float literal n/d in decimal notation (d a power of ten), and the
\* quotient n / d of two ints
Float(n, d) == FDiv(FromInt(n), FromInt(d))

-----------------------------------------------------------------------------
(* The network: a tree of modules whose leaves are the layers. *)

\* characters of the digits, for module names such as conv0, bnx1
Digit == <<"0", "1", "2", "3", "4", "5", "6", "7", "8", "9">>

\* the kinds of leaf layer, each with the stem of the attribute name it is
\* registered under and its geometry (kernel_size, in_channels, out_channels,
\* stride, padding)
StridedConv ==
    [kind |-> "Conv2d", stem |-> <<"c", "o", "n", "v">>,
     kernel_size |-> <<1, 3>>, in_channels |-> 2, out_channels |-> 1,
     stride |-> 2, padding |-> 1]

LayerSet ==
    { [kind |-> "Conv2d", stem |-> <<"c", "o", "n", "v">>,
       kernel_size |-> <<3, 3>>, in_channels |-> 1, out_channels |-> 2,
       stride |-> 1, padding |-> 0],
      StridedConv,
      [kind |-> "BatchNorm2dEx", stem |-> <<"b", "n", "x">>,
       kernel_size |-> <<0, 0>>, in_channels |-> 0, out_channels |-> 0,
       stride |-> 0, padding |-> 0],
      [kind |-> "BatchNorm2d", stem |-> <<"b", "n">>,
       kernel_size |-> <<0, 0>>, in_channels |-> 0, out_channels |-> 0,
       stride |-> 0, padding |-> 0],
      [kind |-> "MaxPool2d", stem |-> <<"p", "o", "o", "l">>,
       kernel_size |-> <<2, 2>>, in_channels |-> 0, out_channels |-> 0,
       stride |-> 2, padding |-> 0] }

\* the kinds of layer of the networks that are trained
TrainLayerSet == LayerSet \ {StridedConv}

\* the kinds of layer of the network of the main block: the convolutions
\* and the prunable norms
MainLayerSet == { t \in TrainLayerSet : t.kind \in {"Conv2d", "BatchNorm2dEx"} }

\* the leaf built from template t as the i-th layer of the network (1-based;
\* its name carries the 0-based position)
Leaf(t, i) ==
    [kind |-> t.kind, name |-> t.stem \o <<Digit[i]>>, id |-> i,
     kernel_size |-> t.kernel_size, in_channels |-> t.in_channels,
     out_channels |-> t.out_channels, stride |-> t.stride,
     padding |-> t.padding, children |-> <<>>]

Container(name, children) ==
    [kind |-> "Sequential", name |-> name, id |-> 0,
     kernel_size |-> <<0, 0>>, in_channels |-> 0, out_channels |-> 0,
     stride |-> 0, padding |-> 0, children |-> children]

\* the network with layers ts, the first `split` of them nested in a
\* sub-module named "features" and the others direct children of the root
Network(ts, split) ==
    LET leaves == [i \in 1..Len(ts) |-> Leaf(ts[i], i)]
        nested == IF split > 0
                  THEN <<Container(<<"f", "e", "a", "t", "u", "r", "e", "s">>,
                                   SubSeq(leaves, 1, split))>>
                  ELSE <<>>
    IN  Container(<<>>, nested \o SubSeq(leaves, split + 1, Len(ts)))

LayerSeqs(kinds, max) == UNION { [1..n -> kinds] : n \in 1..max }

\* every network of up to max layers of the given kinds: any layers, flat
\* or with the first layers nested
ModelsOf(kinds, max) ==
    UNION { { Network(ts, s) : s \in {0, IF Len(ts) < 2 THEN 1 ELSE 2} } :
            ts \in LayerSeqs(kinds, max) }

Models == ModelsOf(LayerSet, MaxLayers)

\* the ids of the layers
MaxOf(S) == CHOOSE n \in S : \A k \in S : k <= n

LayerIds == 1..MaxOf({MaxLayers, MaxTrainLayers, MaxMainLayers})

\* utils.expand_model: the leaves of the module tree in execution order,
\* appended to `layers`
RECURSIVE expand_model(_, _)
expand_model(m, layers) ==
    IF Len(m.children) = 0 THEN layers
    ELSE LET c    == Head(m.children)
             rest == [m EXCEPT !.children = Tail(m.children)]
         IN  IF Len(c.children) > 0
             THEN expand_model(rest, expand_model(c, layers))
             ELSE expand_model(rest, Append(layers, c))

IsConv(l) == l.kind = "Conv2d"

IsBnEx(l) == l.kind = "BatchNorm2dEx"

\* line 35, the filter on isinstance(l, nn.Conv2d): the convolutions of s,
\* in order
RECURSIVE filter_convs(_)
filter_convs(s) ==
    IF s = <<>> THEN <<>>
    ELSE IF IsConv(Head(s)) THEN <<Head(s)>> \o filter_convs(Tail(s))
         ELSE filter_convs(Tail(s))

\* side length of the image fed to compute_dims
input_spatial_size == 32

\* utils.compute_dims: the output side length after each convolution, found
\* by following strides and padding through the layers
RECURSIVE trace_dims(_, _)
trace_dims(layers, d) ==
    IF layers = <<>> THEN <<>>
    ELSE LET l == Head(layers)
             o == IF l.kind \in {"Conv2d", "MaxPool2d"}
                  THEN (d + 2 * l.padding - l.kernel_size[1]) \div l.stride + 1
                  ELSE d
         IN  IF IsConv(l) THEN <<o>> \o trace_dims(Tail(layers), o)
             ELSE trace_dims(Tail(layers), o)

compute_dims(m) == trace_dims(expand_model(m, <<>>), input_spatial_size)

-----------------------------------------------------------------------------
(* compute_penalties, main.py lines 30-58. *)

\* the convolutions of the model, in execution order (line 35)
conv_layers(m) == filter_convs(expand_model(m, <<>>))

\* the inner loop of lines 49-50 from its j-th iteration on, for the
\* convolution at 0-based position i and the follow_up_cost reached so far:
\* tail[j] is layers[i+1+j] and the spatial term read is image_dims[j+i]
RECURSIVE follow_up_from(_, _, _, _, _)
follow_up_from(layers, image_dims, i, j, cost) ==
    IF i + 1 + j >= Len(layers) THEN cost
    ELSE LET follow_up_conv == layers[i + 1 + j + 1]
         IN  follow_up_from(layers, image_dims, i, j + 1,
                 FAdd(cost,
                      FromInt(follow_up_conv.kernel_size[1]
                                  * follow_up_conv.kernel_size[2]
                                  * follow_up_conv.in_channels
                                + image_dims[j + i + 1] * image_dims[j + i + 1])))

\* lines 47-50: follow_up_cost = 0. and the loop that adds to it
follow_up_cost(layers, image_dims, i) ==
    follow_up_from(layers, image_dims, i, 0, Zero)

\* lines 42-53 with rho added where line 53 multiplies by it
ista_additive(l, follow_up, r, dim) ==
    LET k_w == l.kernel_size[1]
        k_h == l.kernel_size[2]
    IN  IF dim = 0 THEN ZeroDivisionError
        ELSE FAdd(r, FMul(FMul(FDiv(One, FromInt(dim)), FromInt(dim)),
                          FAdd(FromInt(k_w * k_h * l.in_channels), follow_up)))

\* lines 42-53: (1 / i_w * i_h) is evaluated left to right, and 1 / i_w
\* raises ZeroDivisionError for image_dim = 0
ista(l, follow_up, r, dim) ==
    LET i_w    == FromInt(dim)
        i_h    == FromInt(dim)
        k_w    == l.kernel_size[1]
        k_h    == l.kernel_size[2]
        c_prev == l.in_channels
    IN  IF FDiv(One, i_w) = ZeroDivisionError THEN ZeroDivisionError
        ELSE FMul(r, FMul(FMul(FDiv(One, i_w), i_h),
                          FAdd(FromInt(k_w * k_h * c_prev), follow_up)))

\* the value of follow_up_cost at line 52 of each iteration
follow_up_trace(m) ==
    LET layers == conv_layers(m)
    IN  [n \in 1..Len(layers) |-> follow_up_cost(layers, compute_dims(m), n - 1)]

\* the list returned, or ZeroDivisionError when 1 / i_w of the first
\* iteration raises it
compute_penalties(m, r, dim) ==
    LET layers == conv_layers(m)
        image_dims == compute_dims(m)
    IN  IF layers # <<>> /\ FDiv(One, FromInt(dim)) = ZeroDivisionError
        THEN ZeroDivisionError
        ELSE [n \in 1..Len(layers) |->
                 ista(layers[n], follow_up_cost(layers, image_dims, n - 1), r, dim)]

-----------------------------------------------------------------------------
(* The parameters and the two optimizers of train_model, lines 112-122. *)

IsNorm(l) == l.kind \in {"BatchNorm2dEx", "BatchNorm2d"}

\* the tensors a layer registers
LayerFields(l) ==
    IF IsNorm(l) \/ IsConv(l) THEN <<"weight", "bias">> ELSE <<>>

FieldName(f) ==
    IF f = "weight" THEN <<"w", "e", "i", "g", "h", "t">> ELSE <<"b", "i", "a", "s">>

\* model.named_parameters(): every tensor with its dotted path as name, in
\* the order of the module tree
RECURSIVE named_parameters_in(_, _)
named_parameters_in(m, prefix) ==
    IF Len(m.children) = 0 THEN <<>>
    ELSE LET c    == Head(m.children)
             rest == [m EXCEPT !.children = Tail(m.children)]
             path == prefix \o c.name
             own  == IF Len(c.children) > 0
                     THEN named_parameters_in(c, path \o <<".">>)
                     ELSE [k \in 1..Len(LayerFields(c)) |->
                              [name  |-> path \o <<".">> \o FieldName(LayerFields(c)[k]),
                               id    |-> c.id,
                               field |-> LayerFields(c)[k]]]
         IN  own \o named_parameters_in(rest, prefix)

named_parameters(m) == named_parameters_in(m, <<>>)

\* Python's `sub in n` on strings
Contains(n, sub) ==
    \E i \in 1..(Len(n) - Len(sub) + 1) : SubSeq(n, i, i + Len(sub) - 1) = sub

HasBnx(q) == Contains(q.name, <<"b", "n", "x">>)

\* [p for n, p in ps if ('bnx' in n) == wanted]
RECURSIVE select_params(_, _)
select_params(ps, wanted) ==
    IF ps = <<>> THEN <<>>
    ELSE IF HasBnx(Head(ps)) = wanted
         THEN <<Head(ps)>> \o select_params(Tail(ps), wanted)
         ELSE select_params(Tail(ps), wanted)

\* the parameter list of the SGD optimizer without the name test
non_bn_params_unfiltered(m) == named_parameters(m)

\* line 121 (and 117): [p for n, p in model.named_parameters() if 'bnx' not in n]
non_bn_params(m) == select_params(named_parameters(m), FALSE)

\* line 122 (and 118): [p for n, p in model.named_parameters() if 'bnx' in n]
bn_params(m) == select_params(named_parameters(m), TRUE)

\* line 115
learning_rate == Float(1, 100)

\* line 140, the lr of finetune's optimizer
finetune_lr == Float(1, 1000)

\* lines 121, 122, 140: momentum=0.9
momentum == Float(9, 10)

\* a BatchNormSGD built with the learning rate of finetune
bn_optimizer_lr_of_finetune == finetune_lr

\* line 122: lr=learning_rate
bn_optimizer_lr == learning_rate

Fields == {"weight", "bias"}

Owned(params, i, f) ==
    \E k \in 1..Len(params) : params[k].id = i /\ params[k].field = f

\* line 121: weight_decay=5e-4
weight_decay == Float(5, 10000)

\* the momentum buffers after a step of the optimizer opt with gradient g,
\* from the tensors P and the buffers B:
\* d_p = grad + weight_decay * param; v = momentum * v + d_p
new_buffers(opt, g, P, B) ==
    [f \in Fields |-> [i \in DOMAIN B[f] |->
        IF Owned(opt.params, i, f)
        THEN FAdd(FMul(opt.momentum, B[f][i]),
                  FAdd(g, FMul(opt.weight_decay, P[f][i])))
        ELSE B[f][i]]]

\* param = param - lr * v, with the new buffers V
apply_buffers(opt, P, V) ==
    [P |-> [f \in Fields |-> [i \in DOMAIN P[f] |->
               IF Owned(opt.params, i, f)
               THEN FSub(P[f][i], FMul(opt.lr, V[f][i]))
               ELSE P[f][i]]],
     B |-> V]

\* the momentum update of one step of the optimizer opt. P holds the
\* tensors and B the buffers; g is the gradient of the step
momentum_update(opt, g, P, B) == apply_buffers(opt, P, new_buffers(opt, g, P, B))

FSign(a) == FromInt(a[1])

FMax(a, b) == IF FLeq(a, b) THEN b ELSE a

\* the proximal step on one scale value: sign(w) * max(|w| - t, 0)
soft_threshold(w, t) == FMul(FSign(w), FMax(FSub(FAbs(w), t), Zero))

\* the penalty of the scale tensor of layer i: the n-th scale tensor of the
\* optimizer has ista[n]
penalty_of(opt, i) ==
    LET k == CHOOSE k \in 1..Len(opt.params) :
                 opt.params[k].id = i /\ opt.params[k].field = "weight"
        n == Cardinality({ j \in 1..k : opt.params[j].field = "weight" })
    IN  opt.ista[n]

\* the proximal step of BatchNormSGD on the scales W it owns
proximal_step(opt, W) ==
    [i \in DOMAIN W |->
        IF Owned(opt.params, i, "weight")
        THEN soft_threshold(W[i], FMul(opt.lr, penalty_of(opt, i)))
        ELSE W[i]]

NoOptimizer ==
    [active |-> FALSE, params |-> <<>>, lr |-> Zero, momentum |-> Zero,
     weight_decay |-> Zero, ista |-> <<>>]

ZeroBuffers ==
    [f \in Fields |-> [i \in LayerIds |-> Zero]]

\* no epoch loop is running and none has run
NoLoop ==
    /\ fn = "none"
    /\ num_epochs = 0
    /\ epoch = 0
    /\ at = "train"
    /\ passes = <<>>
    /\ optimizer = NoOptimizer
    /\ bn_optimizer = NoOptimizer
    /\ momentum_buffer = ZeroBuffers
    /\ stepped = [i \in LayerIds |-> Zero]
    /\ n_steps = 0

-----------------------------------------------------------------------------
(* Calls of compute_penalties on any network, rho and resolution. *)

\* src/main.py:30, the default of image_dim
DefaultImageDim == 40

\* rho: 0, 1 and the float literal 0.1
Rhos == { Zero, One, Float(1, 10) }

\* the factor k: 0.5, by which a float is scaled without rounding, and 3
Factors == { Float(1, 2), FromInt(3) }

\* reference resolutions: 0, for which 1 / i_w raises, the default, and 49,
\* for which 1 / i_w * i_h is 0.9999999999999999
ImageDims == { 0, DefaultImageDim, 49 }

\* parameter values at construction: scales 1, shifts 0, weights 1
InitWeight == [i \in LayerIds |-> One]

InitBias == [i \in LayerIds |-> Zero]

InitPenalties ==
    /\ model \in Models
    /\ weight = InitWeight
    /\ bias = InitBias
    /\ weight0 = weight
    /\ bias0 = bias
    /\ alpha = One
    /\ calls = <<>>
    /\ NoLoop
    /\ phase = "caller"
    /\ penalty_calls = 0
    /\ follow = {}
    /\ rho \in Rhos
    /\ factor \in Factors
    /\ image_dim \in ImageDims
    /\ ista_penalties = <<>>
    /\ scaled_penalties = <<>>
    /\ follow_up_costs = <<>>
    /\ computed = {}

\* compute_penalties(model, rho, image_dim); an exception ends the caller
CallComputePenalties ==
    /\ phase = "caller"
    /\ "rho" \notin computed
    /\ \E penalties \in { compute_penalties(model, rho, image_dim) } :
         IF penalties = ZeroDivisionError
         THEN /\ phase' = "raised"
              /\ UNCHANGED <<ista_penalties, follow_up_costs, computed>>
         ELSE /\ ista_penalties' = penalties
              /\ follow_up_costs' = follow_up_trace(model)
              /\ computed' = computed \cup {"rho"}
              /\ phase' = phase
    /\ UNCHANGED <<netVars, scaleVars, loopVars, penalty_calls, follow, rho,
                   factor, image_dim, scaled_penalties>>

\* compute_penalties(model, k * rho, image_dim)
CallComputePenaltiesScaled ==
    /\ phase = "caller"
    /\ "krho" \notin computed
    /\ \E penalties \in { compute_penalties(model, FMul(factor, rho), image_dim) } :
         IF penalties = ZeroDivisionError
         THEN /\ phase' = "raised"
              /\ UNCHANGED <<scaled_penalties, computed>>
         ELSE /\ scaled_penalties' = penalties
              /\ computed' = computed \cup {"krho"}
              /\ phase' = phase
    /\ UNCHANGED <<netVars, scaleVars, loopVars, penalty_calls, follow, rho,
                   factor, image_dim, ista_penalties, follow_up_costs>>

NextPenalties == CallComputePenalties \/ CallComputePenaltiesScaled

SpecPenalties == InitPenalties /\ [][NextPenalties]_vars

-----------------------------------------------------------------------------
(* Claims about compute_penalties, checked under SpecPenalties.  Where a   *)
(* claim gives a value by a formula over the reals, the float returned is  *)
(* compared with the exact value of the formula up to rounding.            *)

\* 2^-51, four units in the last place of a double
Tolerance == <<1, <<1>>, -51>>

\* |x - y| <= 2^-51 * |y|, in exact arithmetic
Within(x, y) == XLeq(XAbs(XSub(x, y)), XMul(Tolerance, XAbs(y)))

\* the own-cost term of a convolution, k_w * k_h * in_channels
OwnCostTerm(l) == l.kernel_size[1] * l.kernel_size[2] * l.in_channels

\* C1: for every convolution l, every rho and every image_dim > 0 the
\* penalty returned for l is rho * (k_w*k_h*in_channels + follow_up_cost)
\* divided by i_w * i_h, with i_w = i_h = image_dim (up to rounding:
\* penalty * i_w * i_h is within 2^-51 of rho * the cost sum).
C1_PenaltyDividedByArea ==
    "rho" \in computed =>
        LET layers == conv_layers(model)
        IN  /\ Len(ista_penalties) = Len(layers)
            /\ \A n \in 1..Len(layers) :
                 Within(XMul(ista_penalties[n], FromInt(image_dim * image_dim)),
                        XMul(rho, XAdd(FromInt(OwnCostTerm(layers[n])),
                                       follow_up_costs[n])))

\* the sum, over the convolutions at positions f..Len(layers), of
\* kernel_w * kernel_h * in_channels plus the square of the spatial size
\* recorded at the convolution's own position
RECURSIVE CostOfLater(_, _, _)
CostOfLater(layers, image_dims, f) ==
    IF f > Len(layers) THEN 0
    ELSE OwnCostTerm(layers[f]) + image_dims[f] * image_dims[f]
           + CostOfLater(layers, image_dims, f + 1)

\* C2: the follow_up_cost of the convolution at position i sums, over every
\* later convolution f, kernel_w(f)*kernel_h(f)*in_channels(f) plus the
\* square of the spatial-trace entry at f's own position; it is 0 for the
\* last convolution.
C2_FollowUpUsesOwnSpatialSize ==
    "rho" \in computed =>
        LET layers == conv_layers(model)
        IN  /\ Len(follow_up_costs) = Len(layers)
            /\ \A n \in 1..Len(layers) :
                 follow_up_costs[n]
                     = FromInt(CostOfLater(layers, compute_dims(model), n + 1))

\* C3, as claimed: compute_penalties(model, k*rho) has the length of
\* compute_penalties(model, rho) and each entry is exactly k times the
\* corresponding entry, the product k * entry taken as a float product or
\* as the exact one.
C3_PenaltiesLinearInRho ==
    computed = {"rho", "krho"} =>
        /\ Len(scaled_penalties) = Len(ista_penalties)
        /\ \A n \in 1..Len(ista_penalties) :
             \/ scaled_penalties[n] = FMul(factor, ista_penalties[n])
             \/ scaled_penalties[n] = XMul(factor, ista_penalties[n])

\* C3, amended: compute_penalties(model, k*rho) has the length of
\* compute_penalties(model, rho) and each entry is k times the
\* corresponding entry up to the rounding of the float products: the two
\* differ by at most 2^-51 of the exact product k * entry.
C3_PenaltiesLinearInRhoUpToRounding ==
    computed = {"rho", "krho"} =>
        /\ Len(scaled_penalties) = Len(ista_penalties)
        /\ \A n \in 1..Len(ista_penalties) :
             Within(scaled_penalties[n], XMul(factor, ista_penalties[n]))

\* both calls returned, on a network of two or more convolutions, and an
\* entry for k*rho is not the product of k and the entry for rho, in exact
\* or in float arithmetic
C3_Witness ==
    /\ computed = {"rho", "krho"}
    /\ Len(ista_penalties) >= 2
    /\ ista_penalties[1] # Zero
    /\ scaled_penalties[1] # XMul(factor, ista_penalties[1])
    /\ scaled_penalties[1] # FMul(factor, ista_penalties[1])

\* the positions, in the flattened layer sequence, of the prunable
\* normalization layers: those that directly follow a convolution
PrunablePositions(all) ==
    { p \in 2..Len(all) : IsBnEx(all[p]) /\ IsConv(all[p - 1]) }

\* the number of convolutions among the first p layers
ConvsUpTo(all, p) == Cardinality({ q \in 1..p : IsConv(all[q]) })

\* C7: compute_penalties returns exactly one penalty per prunable
\* normalization layer, in execution order: entry n is the penalty of the
\* convolution paired with the n-th prunable normalization layer, and a
\* convolution without normalization layer contributes no entry.
C7_OnePenaltyPerPrunableNorm ==
    "rho" \in computed =>
        LET all  == expand_model(model, <<>>)
            pos  == PrunablePositions(all)
            full == compute_penalties(model, rho, image_dim)
        IN  /\ Len(ista_penalties) = Cardinality(pos)
            /\ \A p \in pos :
                 LET n == Cardinality({ q \in pos : q <= p })
                 IN  ista_penalties[n] = full[ConvsUpTo(all, p - 1)]

-----------------------------------------------------------------------------
(* scale_gammas, main.py lines 85-101. *)

\* the loop of lines 96-99 from the pair (layers[p], layers[p+1]) on, over
\* the weights w; a is the factor of the normalization scale and a_ that of
\* the convolution weight
RECURSIVE scale_pairs(_, _, _, _, _)
scale_pairs(layers, p, a, a_, w) ==
    IF p >= Len(layers) THEN w
    ELSE LET l1 == layers[p]
             l2 == layers[p + 1]
         IN  IF IsBnEx(l1) /\ IsConv(l2)
             THEN scale_pairs(layers, p + 1, a, a_,
                      [w EXCEPT ![l1.id] = FMul(w[l1.id], a),
                                ![l2.id] = FMul(w[l2.id], a_)])
             ELSE scale_pairs(layers, p + 1, a, a_, w)

\* lines 91-99, with alpha_ = 1 / alpha of line 89 already computed (line 94
\* computes the same quotient again): the weights after the loop, or
\* ZeroDivisionError when the division raised it
scale_with(layers, a, alpha_, scale_down, w) ==
    IF alpha_ = ZeroDivisionError THEN ZeroDivisionError
    ELSE IF scale_down THEN scale_pairs(layers, 1, a, alpha_, w)
    ELSE scale_pairs(layers, 1, alpha_, a, w)

\* scale_gammas that never inverts alpha
scale_gammas_down_only(a, m, scale_down, w) ==
    scale_with(expand_model(m, <<>>), a, FDiv(One, a), TRUE, w)

\* the weights of the model after scale_gammas(a, m, scale_down), from the
\* weights w before it
scale_gammas(a, m, scale_down, w) ==
    scale_with(expand_model(m, <<>>), a, FDiv(One, a), scale_down, w)

-----------------------------------------------------------------------------
(* Calls of scale_gammas on any network and any alpha. *)

\* alpha: 2, whose reciprocal and products are exact; -3 and 0.1, whose
\* reciprocal is rounded; and 0, for which 1 / alpha raises
Alphas == { FromInt(2), FromInt(-3), Float(1, 10), Zero }

\* parameter values <<scale, shift, convolution weight>>: -0.5, 1 and 1, and
\* the float literals 0.3 and 0.7
RescaleValues == { <<Float(-1, 2), One, One>>, <<Float(3, 10), Zero, Float(7, 10)>> }

\* the parameter values of the layers of m: g for the scale and b for the
\* shift of a normalization, c for the weight of any other layer
Values(m, g, b, c) ==
    LET layers == expand_model(m, <<>>)
        tensor(i, norm, other) ==
            IF i <= Len(layers) /\ IsNorm(layers[i]) THEN norm ELSE other
    IN  [weight |-> [i \in LayerIds |-> tensor(i, g, c)],
         bias   |-> [i \in LayerIds |-> tensor(i, b, Zero)]]

InitRescale ==
    /\ model \in Models
    /\ \E v \in RescaleValues :
         /\ weight = Values(model, v[1], v[2], v[3]).weight
         /\ bias = Values(model, v[1], v[2], v[3]).bias
    /\ weight0 = weight
    /\ bias0 = bias
    /\ alpha \in Alphas
    /\ calls = <<>>
    /\ NoLoop
    /\ phase = "caller"
    /\ penalty_calls = 0
    /\ follow = {}
    /\ rho = Zero
    /\ factor = One
    /\ image_dim = DefaultImageDim
    /\ ista_penalties = <<>>
    /\ scaled_penalties = <<>>
    /\ follow_up_costs = <<>>
    /\ computed = {}

\* scale_gammas(alpha, model, scale_down); an exception ends the caller
CallScaleGammas(scale_down) ==
    /\ phase = "caller"
    /\ Len(calls) < MaxCalls
    /\ \E scaled \in { scale_gammas(alpha, model, scale_down, weight) } :
         IF scaled = ZeroDivisionError
         THEN phase' = "raised" /\ UNCHANGED <<weight, calls>>
         ELSE weight' = scaled /\ calls' = Append(calls, scale_down) /\ phase' = phase
    /\ UNCHANGED <<model, bias, alpha, weight0, bias0, penVars, loopVars,
                   penalty_calls, follow>>

\* scale_gammas(alpha, model, scale_down=True)
CallScaleDown == CallScaleGammas(TRUE)

\* scale_gammas(alpha, model, scale_down=False)
CallScaleUp == CallScaleGammas(FALSE)

NextRescale == CallScaleDown \/ CallScaleUp

SpecRescale == InitRescale /\ [][NextRescale]_vars

-----------------------------------------------------------------------------
(* Claims about scale_gammas, checked under SpecRescale. *)

\* the positions p of the rescaled pairs: a BatchNorm2dEx at p directly
\* followed by a convolution
RescaledPairs(all) ==
    { p \in 1..(Len(all) - 1) : IsBnEx(all[p]) /\ IsConv(all[p + 1]) }

\* normalised inputs on which the pair's function is compared
PairInputs == { Zero, One, FromInt(-2) }

\* the pair's function, over the reals: scale and shift of the
\* normalization applied to the normalised input x, then the convolution
\* weight applied to the result
PairOutput(w, b, bn, conv, x) ==
    XMul(w[conv.id], XAdd(XMul(w[bn.id], x), b[bn.id]))

\* the size of the terms of the pair's function
PairMagnitude(w, b, bn, conv, x) ==
    XMul(XAbs(w[conv.id]), XAdd(XAbs(XMul(w[bn.id], x)), XAbs(b[bn.id])))

\* C5: for alpha # 0 the function computed by every rescaled
\* (normalization, convolution) pair gives the same output on every input
\* after the shrink call as before it (up to rounding: the outputs differ
\* by at most 2^-51 of the size of the function's terms).
C5_ShrinkPreservesPairFunction ==
    calls = <<TRUE>> =>
        LET all == expand_model(model, <<>>)
        IN  \A p \in RescaledPairs(all) : \A x \in PairInputs :
                XLeq(XAbs(XSub(PairOutput(weight, bias, all[p], all[p + 1], x),
                               PairOutput(weight0, bias, all[p], all[p + 1], x))),
                     XMul(Tolerance,
                          PairMagnitude(weight0, bias, all[p], all[p + 1], x)))

\* alpha is 2^n or -2^n: its reciprocal and its products are not rounded
ExactArithmetic(a) == a[2] = <<1>>

\* C6: scale_gammas(alpha, model, scale_down=True) followed by
\* scale_gammas(alpha, model, scale_down=False) leaves every normalization
\* scale and every convolution weight at its value before the first call:
\* exactly where the arithmetic of the two calls is exact, and within the
\* rounding of the three float operations (2^-51 of the value) otherwise.
C6_ShrinkThenGrowRestores ==
    calls = <<TRUE, FALSE>> =>
        /\ \A i \in DOMAIN weight : Within(weight[i], weight0[i])
        /\ ExactArithmetic(alpha) => weight = weight0

\* shrink then grow has run on a network that has a rescaled pair, with an
\* alpha whose products are rounded, and a weight has come back changed
C6_Witness ==
    /\ calls = <<TRUE, FALSE>>
    /\ ~ExactArithmetic(alpha)
    /\ RescaledPairs(expand_model(model, <<>>)) # {}
    /\ weight # weight0

\* shrink then grow has run on a network that has a rescaled pair, with an
\* alpha other than 1 whose arithmetic is exact; the weights are restored
C6_WitnessExact ==
    /\ calls = <<TRUE, FALSE>>
    /\ ExactArithmetic(alpha)
    /\ alpha # One
    /\ RescaledPairs(expand_model(model, <<>>)) # {}
    /\ weight = weight0

-----------------------------------------------------------------------------
(* The epoch loops of train_model (lines 112-135) and finetune (138-145). *)

\* `for epoch in range(1, num_epochs)` entering its body once more at N + 1
loop_continues_inclusive(e, N) == e <= N

\* `for epoch in range(1, num_epochs)`: the body runs for the value e
loop_continues(e, N) == e < N

\* lines 114-122, up to the first test of the loop
EnterTrainModel(N) ==
    /\ fn' = "train_model"
    /\ num_epochs' = N
    /\ epoch' = 1
    /\ at' = "train"
    /\ passes' = <<>>
    /\ optimizer' = [active |-> TRUE, params |-> non_bn_params(model),
                     lr |-> learning_rate, momentum |-> momentum,
                     weight_decay |-> weight_decay, ista |-> <<>>]
    /\ bn_optimizer' = [active |-> TRUE, params |-> bn_params(model),
                        lr |-> bn_optimizer_lr, momentum |-> momentum,
                        weight_decay |-> Zero, ista |-> ista_penalties]
    /\ momentum_buffer' = ZeroBuffers
    /\ UNCHANGED <<stepped, n_steps>>

\* lines 139-140, up to the first test of the loop: one SGD over
\* model.parameters() and no bn_optimizer
EnterFinetune(N) ==
    /\ fn' = "finetune"
    /\ num_epochs' = N
    /\ epoch' = 1
    /\ at' = "train"
    /\ passes' = <<>>
    /\ optimizer' = [active |-> TRUE, params |-> named_parameters(model),
                     lr |-> finetune_lr, momentum |-> momentum,
                     weight_decay |-> weight_decay, ista |-> <<>>]
    /\ bn_optimizer' = NoOptimizer
    /\ momentum_buffer' = ZeroBuffers
    /\ UNCHANGED <<stepped, n_steps>>

\* gradients of a step, the same for every tensor
GradValues == { Zero, One }

\* lines 125 and 142, train(...): the loader yields one batch; backward
\* leaves the gradient g, optimizer.step() makes its momentum update and
\* bn_optimizer.step(), when there is one, its momentum update followed by
\* the proximal step
TrainStep ==
    /\ fn # "none"
    /\ at = "train"
    /\ loop_continues(epoch, num_epochs)
    /\ \E g \in GradValues :
         \E s1 \in { momentum_update(optimizer, g,
                                     [weight |-> weight, bias |-> bias],
                                     momentum_buffer) } :
         \E s2 \in { IF bn_optimizer.active
                     THEN momentum_update(bn_optimizer, g, s1.P, s1.B)
                     ELSE s1 } :
             /\ stepped' = s2.P.weight
             /\ weight' = IF bn_optimizer.active
                          THEN proximal_step(bn_optimizer, s2.P.weight)
                          ELSE s2.P.weight
             /\ bias' = s2.P.bias
             /\ momentum_buffer' = s2.B
    /\ n_steps' = n_steps + 1
    /\ passes' = Append(passes, <<epoch, "train">>)
    /\ at' = "test"
    /\ UNCHANGED <<model, fn, num_epochs, epoch, optimizer, bn_optimizer>>

\* a training pass that also computes the penalties anew, for a doubled rho
TrainPassRecomputingPenalties ==
    /\ TrainStep
    /\ ista_penalties' = compute_penalties(model, FAdd(rho, rho), image_dim)
    /\ UNCHANGED <<rho, factor, image_dim, scaled_penalties, follow_up_costs,
                   computed, scaleVars, mainVars>>

TrainPass ==
    /\ TrainStep
    /\ UNCHANGED <<penVars, scaleVars, mainVars>>

\* lines 126-131 and 143-145: test(...) and the logging of the epoch change
\* no parameter; the loop goes on to the next epoch
TestPass ==
    /\ fn # "none"
    /\ at = "test"
    /\ passes' = Append(passes, <<epoch, "test">>)
    /\ epoch' = epoch + 1
    /\ at' = "train"
    /\ UNCHANGED <<netVars, penVars, scaleVars, mainVars, fn, num_epochs,
                   optimizer, bn_optimizer, momentum_buffer, stepped, n_steps>>

\* where the caller goes on when the loop returns
AfterReturn ==
    CASE phase = "running"      -> "returned"
      [] phase = "in_step3"     -> "step4"
      [] phase = "in_step6"     -> "compress"
      [] phase = "in_refinetune" -> "close"

\* lines 135 and the end of finetune: the range is exhausted
Return ==
    /\ fn # "none"
    /\ at = "train"
    /\ ~loop_continues(epoch, num_epochs)
    /\ fn' = "none"
    /\ phase' = AfterReturn
    /\ UNCHANGED <<netVars, penVars, scaleVars, penalty_calls, follow,
                   num_epochs, epoch, at, passes, optimizer, bn_optimizer,
                   momentum_buffer, stepped, n_steps>>

-----------------------------------------------------------------------------
(* Calls of train_model and finetune with any epoch count, on the networks *)
(* the two optimizers accept.                                              *)

\* the networks in which every BatchNorm2dEx directly follows a convolution
\* and there is one at least (an optimizer refuses an empty parameter list)
Trainable(m) ==
    LET all == expand_model(m, <<>>)
    IN  /\ \E p \in 1..Len(all) : IsBnEx(all[p])
        /\ \A p \in 1..Len(all) :
             IsBnEx(all[p]) => (p > 1 /\ IsConv(all[p - 1]))

TrainableModels == { m \in ModelsOf(TrainLayerSet, MaxTrainLayers) : Trainable(m) }

\* the networks main builds
MainModels == { m \in ModelsOf(MainLayerSet, MaxMainLayers) : Trainable(m) }

\* the scales of the network before training
ScaleValues == { One, Float(-1, 2) }

\* the rho of the penalties handed to train_model
TrainRhos == { Zero, One }

InitTrain ==
    /\ model \in TrainableModels
    /\ \E g \in ScaleValues :
         /\ weight = Values(model, g, Zero, One).weight
         /\ bias = Values(model, g, Zero, One).bias
    /\ weight0 = weight
    /\ bias0 = bias
    /\ alpha = One
    /\ calls = <<>>
    /\ rho \in TrainRhos
    /\ factor = One
    /\ image_dim = DefaultImageDim
    /\ ista_penalties = compute_penalties(model, rho, image_dim)
    /\ follow_up_costs = follow_up_trace(model)
    /\ scaled_penalties = <<>>
    /\ computed = {"rho"}
    /\ NoLoop
    /\ phase = "caller"
    /\ penalty_calls = 1
    /\ follow = {}

\* train_model(model_name, model, ista_penalties, num_epochs=N)
CallTrainModel ==
    /\ phase = "caller"
    /\ \E N \in 0..MaxEpochs : EnterTrainModel(N)
    /\ phase' = "running"
    /\ UNCHANGED <<netVars, penVars, scaleVars, penalty_calls, follow>>

\* finetune(model, writer, epochs=N)
CallFinetune ==
    /\ phase = "caller"
    /\ \E N \in 0..MaxEpochs : EnterFinetune(N)
    /\ phase' = "running"
    /\ UNCHANGED <<netVars, penVars, scaleVars, penalty_calls, follow>>

NextTrain == CallTrainModel \/ CallFinetune \/ TrainPass \/ TestPass \/ Return

SpecTrain == InitTrain /\ [][NextTrain]_vars

-----------------------------------------------------------------------------
(* Claims about train_model and finetune, checked under SpecTrain. *)

Range(f) == { f[k] : k \in DOMAIN f }

\* the ids of the layers whose scale the proximal optimizer owns
ProximalScales == { i \in DOMAIN weight : Owned(bn_optimizer.params, i, "weight") }

\* C4: in one step of the proximal optimizer, every scale value w (taken
\* after the momentum update) with |w| <= lr * p, p the penalty of its
\* layer and lr the learning rate of train_model, is exactly 0 after the
\* proximal step.
C4_ProximalStepYieldsExactZero ==
    (bn_optimizer.active /\ n_steps > 0) =>
        \A i \in ProximalScales :
            XLeq(XAbs(stepped[i]), XMul(learning_rate, penalty_of(bn_optimizer, i)))
                => weight[i] = Zero

\* a step has taken a scale other than 0 to a value within the threshold,
\* and the proximal step has left 0
C4_Witness ==
    /\ bn_optimizer.active
    /\ n_steps > 0
    /\ \E i \in ProximalScales :
         /\ stepped[i] # Zero
         /\ XLeq(XAbs(stepped[i]), XMul(learning_rate, penalty_of(bn_optimizer, i)))
         /\ weight[i] = Zero

\* C8: in train_model the parameters given to the SGD optimizer and those
\* given to BatchNormSGD are disjoint and together are all the named
\* parameters of the model: each parameter is owned by exactly one of them.
C8_OptimizersPartitionParameters ==
    fn = "train_model" =>
        LET S == Range(optimizer.params)
            B == Range(bn_optimizer.params)
        IN  /\ S \cap B = {}
            /\ S \cup B = Range(named_parameters(model))
            /\ Cardinality(S) = Len(optimizer.params)
            /\ Cardinality(B) = Len(bn_optimizer.params)

\* train_model runs on a network with a BatchNorm2dEx, whose tensors go to
\* BatchNormSGD, and a BatchNorm2d, whose name holds "bn" but not "bnx" and
\* whose tensors go to SGD
C8_Witness ==
    /\ fn = "train_model"
    /\ bn_optimizer.params # <<>>
    /\ \E q \in Range(optimizer.params) :
         Contains(q.name, <<"b", "n">>) /\ ~HasBnx(q)

\* the passes of N - 1 epochs, numbered from 1: a training pass, then a test
\* pass
ExpectedPasses(N) ==
    [k \in 1..(2 * (IF N > 1 THEN N - 1 ELSE 0)) |->
        <<(k + 1) \div 2, IF k % 2 = 1 THEN "train" ELSE "test">>]

\* C10: train_model with num_epochs = N, and finetune with epochs = N, run
\* exactly max(N - 1, 0) epochs, numbered 1 to N - 1, each one training pass
\* followed by one test pass; for N <= 1 no optimizer step is taken and every
\* parameter keeps its initial value.
C10_EpochLoopRunsNMinusOne ==
    phase = "returned" =>
        /\ passes = ExpectedPasses(num_epochs)
        /\ n_steps = (IF num_epochs > 1 THEN num_epochs - 1 ELSE 0)
        /\ num_epochs <= 1 => (n_steps = 0 /\ weight = weight0 /\ bias = bias0)

\* a loop given N = 3 has returned after its two epochs, which changed
\* parameters
C10_Witness ==
    /\ phase = "returned"
    /\ num_epochs = 3
    /\ passes = <<<<1, "train">>, <<1, "test">>, <<2, "train">>, <<2, "test">>>>
    /\ weight # weight0

-----------------------------------------------------------------------------
(* The main block, lines 153-206. *)

\* line 169
MainRho == Float(1, 10000000)

\* the scales of the network main starts from, fresh or pretrained
MainScaleValues == ScaleValues \cup {Zero}

InitMain ==
    /\ model \in MainModels
    /\ \E g \in MainScaleValues :
         /\ weight = Values(model, g, Zero, One).weight
         /\ bias = Values(model, g, Zero, One).bias
    /\ weight0 = weight
    /\ bias0 = bias
    /\ alpha = One
    /\ calls = <<>>
    /\ rho = MainRho
    /\ factor = One
    /\ image_dim = DefaultImageDim
    /\ ista_penalties = <<>>
    /\ follow_up_costs = <<>>
    /\ scaled_penalties = <<>>
    /\ computed = {}
    /\ NoLoop
    /\ phase = "start"
    /\ penalty_calls = 0
    /\ follow = {}

\* lines 171-179: step one, with the default image_dim
MainComputePenalties ==
    /\ phase = "start"
    /\ ista_penalties' = compute_penalties(model, rho, DefaultImageDim)
    /\ follow_up_costs' = follow_up_trace(model)
    /\ computed' = computed \cup {"rho"}
    /\ penalty_calls' = penalty_calls + 1
    /\ phase' = "step3"
    /\ UNCHANGED <<netVars, scaleVars, loopVars, rho, factor, image_dim,
                   scaled_penalties, follow>>

\* line 182: step three
MainTrainModel ==
    /\ phase = "step3"
    /\ EnterTrainModel(initial_training_epochs)
    /\ phase' = "in_step3"
    /\ UNCHANGED <<netVars, penVars, scaleVars, penalty_calls, follow>>

\* lines 104-110: every BatchNorm2dEx but the first gets follow = True
switch_to_follow(m) ==
    LET all == expand_model(m, <<>>)
    IN  { all[p].id : p \in { q \in 1..Len(all) :
                                 /\ IsBnEx(all[q])
                                 /\ \E r \in 1..(q - 1) : IsBnEx(all[r]) } }

\* line 185: step four
MainSwitchToFollow ==
    /\ phase = "step4"
    /\ follow' = follow \cup switch_to_follow(model)
    /\ phase' = "step6"
    /\ UNCHANGED <<netVars, penVars, scaleVars, loopVars, penalty_calls>>

\* line 191: step six
MainFinetune ==
    /\ phase = "step6"
    /\ EnterFinetune(finetuning_epochs)
    /\ phase' = "in_step6"
    /\ UNCHANGED <<netVars, penVars, scaleVars, penalty_calls, follow>>

\* the ids of the convolutions whose normalization scale is 0
pruned_convs(m, W) ==
    LET all == expand_model(m, <<>>)
    IN  { all[p - 1].id : p \in { q \in PrunablePositions(all) : W[all[q].id] = Zero } }

\* utils.sparsify_on_bn: the channels whose scale is 0 are zeroed
sparsify_on_bn(m, T) ==
    [i \in DOMAIN T |-> IF i \in pruned_convs(m, weight) THEN Zero ELSE T[i]]

\* lines 193-200: sparsify_on_bn, then compress_convs builds new_model with
\* the surviving channels and the weights copied; a layer left with no
\* channel cannot be pruned
MainCompress ==
    /\ phase = "compress"
    /\ weight' = sparsify_on_bn(model, weight)
    /\ bias' = sparsify_on_bn(model, bias)
    /\ phase' = IF pruned_convs(model, weight) = {} THEN "refinetune"
                ELSE "pruning_impossible"
    /\ UNCHANGED <<model, penVars, scaleVars, loopVars, penalty_calls, follow>>

\* line 203: finetune(new_model, writer, compress_epochs)
MainRefinetune ==
    /\ phase = "refinetune"
    /\ EnterFinetune(compress_epochs)
    /\ phase' = "in_refinetune"
    /\ UNCHANGED <<netVars, penVars, scaleVars, penalty_calls, follow>>

\* lines 205-206
MainClose ==
    /\ phase = "close"
    /\ phase' = "done"
    /\ UNCHANGED <<netVars, penVars, scaleVars, loopVars, penalty_calls, follow>>

NextMain ==
    \/ MainComputePenalties
    \/ MainTrainModel
    \/ TrainPass
    \/ TestPass
    \/ Return
    \/ MainSwitchToFollow
    \/ MainFinetune
    \/ MainCompress
    \/ MainRefinetune
    \/ MainClose

SpecMain == InitMain /\ [][NextMain]_vars

-----------------------------------------------------------------------------
(* Claims about the main block, checked under SpecMain. *)

\* C9: in the main pipeline the penalty vector is computed exactly once,
\* before the first optimizer step, and from then on no later phase
\* (training epochs, switch to follow mode, fine-tuning, compression)
\* changes its value.
C9_PenaltiesComputedOnceThenConstant ==
    /\ [](phase = "start" => (penalty_calls = 0 /\ n_steps = 0))
    /\ [](phase # "start" => penalty_calls = 1)
    /\ [][phase # "start" => ista_penalties' = ista_penalties]_vars

\* the pipeline has run to its end, through optimizer steps, with the
\* penalties computed
C9_Witness ==
    /\ phase = "done"
    /\ n_steps >= 3
    /\ follow # {}
    /\ penalty_calls = 1
    /\ ista_penalties = compute_penalties(model, MainRho, DefaultImageDim)
    /\ \E n \in 1..Len(ista_penalties) : ista_penalties[n] # Zero

=============================================================================
